---- MODULE Spec2Model ----
(***************************************************************************)
(* The recovery-and-reconciliation control loop of stingy-vpn.             *)
(*                                                                         *)
(*   Recovery Controller  src/src/lambda/recovery/index.ts                 *)
(*   DNS Reconciler       src/unnamed/part_008 (lambda/ddns-updater)       *)
(*                                                                         *)
(* Both are stateless handlers; the only shared mutable state is the SSM   *)
(* parameter <prefix>/instance-id (the Authoritative Resource Reference).  *)
(* Every await of a handler is one action: the external call takes effect  *)
(* and the synchronous code up to the next await runs with it.  The answer *)
(* of an external service is drawn with \E from the answers the handler's  *)
(* code distinguishes.                                                     *)
(***************************************************************************)
EXTENDS Integers, Sequences, FiniteSets, TLC

VARIABLES
    param,        \* value of the SSM parameter <prefix>/instance-id
    nLaunched,    \* instances created by RunInstances so far
    writeLog,     \* values put to the parameter, in the order SSM applied them
    superseded,   \* signalled ids whose invocation has put a new id
    polled,       \* ids the Recovery Controller has issued DescribeInstances for
    recStarted,   \* interruption signals delivered so far
    rec,          \* Recovery Controller invocations, by slot
    dnsStarted,   \* state-change signals delivered so far
    dns,          \* DNS Reconciler invocations, by slot
    dnsContent    \* content of the Cloudflare DNS record

vars == <<param, nLaunched, writeLog, superseded, polled, recStarted, rec,
          dnsStarted, dns, dnsContent>>

recVars == <<param, nLaunched, writeLog, superseded, polled, recStarted, rec>>
dnsVars == <<dnsStarted, dns, dnsContent>>

-----------------------------------------------------------------------------
(* Bounds of the model *)

MaxLaunch == 2
MaxRecDeliveries == 3
MaxDnsDeliveries == 2

-----------------------------------------------------------------------------
(* Identifiers *)

Sentinel == "initial"

\* Instances that exist before any recovery of the model: the managed one
\* (launched by an earlier recovery) and one the project does not manage.
PreExisting == {"i-old", "i-foreign"}

NewId(k) == "i-new" \o ToString(k)

Launched == {NewId(k) : k \in 1..nLaunched}

Instances == PreExisting \cup Launched

\* The public address EC2 reports for an instance.
AddrOf(id) == "ip-of-" \o id

-----------------------------------------------------------------------------
(* Recovery Controller *)

RecSlots == {1, 2}

MaxPollAttempts == 30
PollIntervalMs == 10000
RunMinCount == 1
RunMaxCount == 1

\* The Lambda timeout of the Recovery Controller, 5 minutes.
RecoveryTimeoutMs == 300000

\* retryAttempts of the rule target of each controller.
RetryAttempts == 2

LifecycleStates ==
    {"pending", "running", "shutting-down", "terminated", "stopping", "stopped"}

\* loadConfig, lines 39-54: the environment variables read, and those whose
\* absence throws.
RecEnvKeys ==
    {"PARAMETER_STORE_PREFIX", "VPC_ID", "SUBNET_ID", "SECURITY_GROUP_ID",
     "LAUNCH_TEMPLATE_ID", "LOG_LEVEL"}
RecRequired == RecEnvKeys \ {"LOG_LEVEL"}

\* loadConfig, lines 46-54: no required variable is missing.
LoadConfigOkPrefixOnly(env, required) == "PARAMETER_STORE_PREFIX" \in env
LoadConfigOk(env, required) == required \subseteq env

\* loadConfig, line 44: process.env.LOG_LEVEL ?? "info".
LogLevel(env) == IF "LOG_LEVEL" \in env THEN "as-set" ELSE "info"

RecIdle ==
    [pc |-> "idle", ev |-> "none", cur |-> "none", newId |-> "none",
     attempt |-> 0, result |-> "none", err |-> "none",
     nRead |-> 0, nCreate |-> 0, nInst |-> 0, nWrite |-> 0, nPoll |-> 0,
     order |-> <<>>, late |-> FALSE, waited |-> 0,
     runOut |-> "none", sawRunning |-> FALSE, sawTerminal |-> FALSE,
     tries |-> 0, env |-> RecEnvKeys, logLevel |-> "as-set",
     readOut |-> "none", action |-> "none", putOut |-> "none",
     pollThrew |-> FALSE]

\* SpotInterruptionDetail, line 16: the instance-action of the event, one of
\* the interruption behaviours of a Spot request.
Hints == {"terminate", "stop", "hibernate"}

\* The interruption behaviour of the launch template's Spot requests
\* (spotOptions.interruptionBehavior of the stack).
DefaultHint == "terminate"

\* handler, line 209: the id the handler acts on, taken from the event.
InterruptedIdByAction(id, action) == IF action = "terminate" THEN id ELSE "none"
InterruptedId(id, action) == id

\* handler, the guard of lines 217-220 negated: the signal is ours.
ApplicableAlways(cur, ev) == TRUE
ApplicableNoBootstrap(cur, ev) == cur = ev
Applicable(cur, ev) == ~(cur # ev /\ cur # Sentinel)

\* handler, the order of its three awaited steps after the guard.
RecNextPcWaitFirst(pc) ==
    CASE pc = "launch" -> "poll"
      [] pc = "poll" -> "put"
      [] pc = "put" -> "done"
RecNextPc(pc) ==
    CASE pc = "launch" -> "put"
      [] pc = "put" -> "poll"
      [] pc = "poll" -> "done"

\* PutParameterCommand with Overwrite: true.
PutValueKeep(old, new) == old
PutValueSentinel(old, new) == Sentinel
PutValue(old, new) == new

\* waitForInstanceRunning, the loop condition attempt <= maxAttempts.
PollAgainOffByOne(attempt) == attempt <= MaxPollAttempts + 1
PollAgain(attempt) == attempt <= MaxPollAttempts

\* Instances RunInstances creates for MinCount..MaxCount.
RunCountTwo == RunMaxCount + 1
RunCount == RunMaxCount

\* waitForInstanceRunning, line 184: the state ends the wait as a failure.
IsTerminalTerminatedOnly(state) == state = "terminated"
IsTerminal(state) == state = "terminated" \/ state = "shutting-down"

\* getParameter, lines 98-103: the answer carries a value.
ReadYieldsValueUnchecked(out) == out \in {"ok", "novalue"}
ReadYieldsValue(out) == out = "ok"

\* launchNewSpotInstance, lines 144-153: the answer carries an instance id.
LaunchYieldsIdUnchecked(out) == out \in {"ok", "noid"}
LaunchYieldsId(out) == out = "ok"

\* The record of a step: the call is logged once in the order of first calls.
Called(r, call) ==
    IF Len(r.order) > 0 /\ r.order[Len(r.order)] = call
    THEN r.order ELSE Append(r.order, call)

\* handler, lines 244-250: the catch block logs the error and re-throws it.
RecFailSwallowed(r, e) == [r EXCEPT !.pc = "done", !.result = "success", !.err = e]
RecFail(r, e) == [r EXCEPT !.pc = "done", !.result = "failed", !.err = e]
RecSucceed(r) == [r EXCEPT !.pc = "done", !.result = "success"]

\* After the awaited step at r.pc has returned normally.
RecAdvance(r) ==
    LET n == RecNextPc(r.pc)
    IN  IF n = "done" THEN RecSucceed(r)
        ELSE [r EXCEPT !.pc = n, !.attempt = IF n = "poll" THEN 1 ELSE @]

\* The signal source delivers an interruption signal for one of ids with one
\* of hints as its instance-action: handler is entered and runs to its first
\* await, getParameter.  Of the event it reads the instance-id; the
\* instance-action is only logged.
RecDeliver(i, ids, hints) ==
    /\ rec[i].pc \in {"idle", "done"}
    /\ recStarted < MaxRecDeliveries
    /\ \E id \in ids, h \in hints :
          rec' = [rec EXCEPT ![i] =
                    [RecIdle EXCEPT !.pc = "read", !.ev = id, !.action = h,
                                    !.late = (id \in superseded),
                                    !.tries = 1]]
    /\ recStarted' = recStarted + 1
    /\ UNCHANGED <<param, nLaunched, writeLog, superseded, polled>>
    /\ UNCHANGED dnsVars

\* A delivery of the signal of a terminating instance.
RecStart(i) == RecDeliver(i, Instances, {DefaultHint})

\* getParameter(<prefix>/instance-id) answers; the applicability check runs.
RecGetParameter(i) ==
    /\ rec[i].pc = "read"
    /\ \E out \in {"ok", "novalue", "throws"} :
          LET r == [rec[i] EXCEPT !.nRead = @ + 1,
                                  !.order = Called(rec[i], "get"),
                                  !.readOut = out]
          IN  rec' = [rec EXCEPT ![i] =
                CASE out = "throws" -> RecFail(r, "SsmError")
                  [] out # "throws" /\ ~ReadYieldsValue(out) ->
                       RecFail(r, "ParameterNotFound")
                  [] OTHER ->
                       IF Applicable(param, InterruptedId(r.ev, r.action))
                       THEN [r EXCEPT !.cur = param, !.pc = "launch"]
                       ELSE RecSucceed([r EXCEPT !.cur = param])]
    /\ UNCHANGED <<param, nLaunched, writeLog, superseded, polled, recStarted>>
    /\ UNCHANGED dnsVars

\* launchNewSpotInstance: RunInstances answers.
RecRunInstances(i) ==
    /\ rec[i].pc = "launch"
    /\ \E out \in {"ok", "noinstances", "noid", "throws"} :
          LET r == [rec[i] EXCEPT !.nCreate = @ + 1,
                                  !.order = Called(rec[i], "run"),
                                  !.runOut = out]
          IN  IF LaunchYieldsId(out)
              THEN /\ nLaunched + RunCount <= MaxLaunch
                   /\ nLaunched' = nLaunched + RunCount
                   /\ rec' = [rec EXCEPT ![i] =
                        RecAdvance([r EXCEPT !.newId = NewId(nLaunched + 1),
                                             !.nInst = @ + RunCount])]
              ELSE /\ nLaunched' = nLaunched
                   /\ rec' = [rec EXCEPT ![i] =
                        RecFail(r, CASE out = "noinstances" -> "LaunchFailed"
                                     [] out = "noid" -> "NoInstanceId"
                                     [] out = "throws" -> "Ec2Error")]
    /\ UNCHANGED <<param, writeLog, superseded, polled, recStarted>>
    /\ UNCHANGED dnsVars

\* putParameter(<prefix>/instance-id, newInstanceId) answers.
RecPutParameter(i) ==
    /\ rec[i].pc = "put"
    /\ \E out \in {"ok", "throws"} :
          LET r == [rec[i] EXCEPT !.nWrite = @ + 1,
                                  !.order = Called(rec[i], "put"),
                                  !.putOut = out]
          IN  IF out = "ok"
              THEN /\ param' = PutValue(param, r.newId)
                   /\ writeLog' = Append(writeLog, r.newId)
                   /\ superseded' = superseded \cup {r.ev}
                   /\ rec' = [rec EXCEPT ![i] = RecAdvance(r)]
              ELSE /\ UNCHANGED <<param, writeLog, superseded>>
                   /\ rec' = [rec EXCEPT ![i] = RecFail(r, "SsmPutError")]
    /\ UNCHANGED <<nLaunched, polled, recStarted>>
    /\ UNCHANGED dnsVars

\* waitForInstanceRunning: one iteration of the loop, DescribeInstances
\* answers, and on a non-final state the 10 s sleep and the loop test.
RecDescribe(i) ==
    /\ rec[i].pc = "poll"
    /\ polled' = polled \cup {rec[i].newId}
    /\ \E out \in LifecycleStates \cup {"undefined", "throws"} :
          LET r == [rec[i] EXCEPT !.nPoll = @ + 1,
                                  !.order = Called(rec[i], "describe"),
                                  !.sawRunning = @ \/ out = "running",
                                  !.pollThrew = @ \/ out = "throws",
                                  !.sawTerminal =
                                      @ \/ out \in {"terminated", "shutting-down"}]
          IN  rec' = [rec EXCEPT ![i] =
                CASE out = "throws" -> RecFail(r, "DescribeError")
                  [] out = "running" -> RecAdvance(r)
                  [] IsTerminal(out) -> RecFail(r, "TerminalState")
                  [] OTHER ->
                       LET s == [r EXCEPT !.waited = @ + PollIntervalMs,
                                          !.attempt = @ + 1]
                       IN  IF PollAgain(s.attempt) THEN s
                           ELSE RecFail(s, "PollTimeout")]
    /\ UNCHANGED <<param, nLaunched, writeLog, superseded, recStarted>>
    /\ UNCHANGED dnsVars

\* The awaited steps of a running invocation.
RecSteps(i) ==
    \/ RecGetParameter(i)
    \/ RecRunInstances(i)
    \/ RecPutParameter(i)
    \/ RecDescribe(i)

RecNext(S) == \E i \in S : RecStart(i) \/ RecSteps(i)

\* A delivery to an execution environment that has handled no signal yet.
RecStartFresh(i) == rec[i].pc = "idle" /\ RecStart(i)

\* A delivery to a new execution environment whose variables are env: the
\* module is loaded, const config = loadConfig() runs, and handler is entered
\* only if that did not throw.
RecColdStart(i) ==
    /\ rec[i].pc = "idle"
    /\ recStarted < MaxRecDeliveries
    /\ \E env \in SUBSET RecEnvKeys, id \in Instances :
          LET r == [RecIdle EXCEPT !.ev = id, !.tries = 1, !.env = env,
                                   !.action = DefaultHint,
                                   !.late = (id \in superseded)]
          IN  rec' = [rec EXCEPT ![i] =
                 IF LoadConfigOk(env, RecRequired)
                 THEN [r EXCEPT !.pc = "read", !.logLevel = LogLevel(env)]
                 ELSE [r EXCEPT !.pc = "done", !.result = "failed",
                                !.err = "MissingEnv", !.logLevel = "none"]]
    /\ recStarted' = recStarted + 1
    /\ UNCHANGED <<param, nLaunched, writeLog, superseded, polled>>
    /\ UNCHANGED dnsVars

\* The rule target's retry policy: the invocation failed.
Redeliverable(result) == result = "failed"

\* The rule target's retry policy: retries are left after `tries` deliveries.
RetriesLeftOneMore(tries) == tries <= RetryAttempts + 1
RetriesLeft(tries) == tries <= RetryAttempts

\* The rule target delivers the signal of a failed invocation again: handler
\* is entered with the same event.
RecRedeliver(i) ==
    /\ rec[i].pc = "done"
    /\ Redeliverable(rec[i].result)
    /\ RetriesLeft(rec[i].tries)
    /\ rec' = [rec EXCEPT ![i] =
                [RecIdle EXCEPT !.pc = "read", !.ev = rec[i].ev,
                                !.action = rec[i].action,
                                !.late = (rec[i].ev \in superseded),
                                !.tries = rec[i].tries + 1]]
    /\ UNCHANGED <<param, nLaunched, writeLog, superseded, polled, recStarted>>
    /\ UNCHANGED dnsVars

-----------------------------------------------------------------------------
(* Shared retry utility: withRetry *)

\* withRetry, line 188: the loop condition, tested after attempt++.
RetryLoopsExclusive(attempt, maxAttempts) == attempt < maxAttempts
RetryLoopsNever(attempt, maxAttempts) == FALSE
RetryLoops(attempt, maxAttempts) == attempt <= maxAttempts

\* withRetry, line 197: a wait follows the failed attempt.
RetryWaits(attempt, maxAttempts) == attempt < maxAttempts

\* withRetry, line 198: the wait after failed attempt number `attempt`.
RetryDelayLinear(baseDelayMs, attempt) == baseDelayMs * attempt
RetryDelay(baseDelayMs, attempt) == baseDelayMs * 2 ^ (attempt - 1)

\* withRetry, line 192: the error kept for the final throw.
KeptErrorFirst(lastError, error) ==
    IF lastError.kind = "none" THEN error ELSE lastError
KeptError(lastError, error) == error

-----------------------------------------------------------------------------
(* DNS Reconciler *)

DnsSlots == {1}

LookupMaxAttempts == 5
LookupBaseDelayMs == 2000
PatchMaxAttempts == 3
PatchBaseDelayMs == 1000

\* The Lambda timeout of the DNS Reconciler, 30 seconds.
DdnsTimeoutMs == 30000

\* Bodies the DNS provider may send with a failure.
Payloads == {"body-a", "body-b"}

NoError == [kind |-> "none", payload |-> ""]
Err(k) == [kind |-> k, payload |-> ""]
ErrWith(k, p) == [kind |-> k, payload |-> p]

\* loadConfig, lines 45-61: the environment variables read, and those whose
\* absence throws.
DnsEnvKeys ==
    {"PARAMETER_STORE_PREFIX", "CLOUDFLARE_ZONE_ID", "CLOUDFLARE_RECORD_ID",
     "LOG_LEVEL"}
DnsRequired == DnsEnvKeys \ {"LOG_LEVEL"}

DnsIdle ==
    [pc |-> "idle", ev |-> "none", state |-> "none", managed |-> "none",
     ip |-> "none", attempt |-> 0, lastError |-> NoError, thrown |-> NoError,
     result |-> "none", err |-> NoError,
     nRead |-> 0, nLookup |-> 0, nToken |-> 0, nPatch |-> 0, nPatchOk |-> 0,
     onlyNoIp |-> TRUE, sent |-> {}, waits |-> <<>>, tries |-> 0,
     env |-> DnsEnvKeys, logLevel |-> "as-set", readOut |-> "none",
     prevEv |-> "none", prevPatched |-> FALSE, before |-> "none"]

\* handler, line 222 negated: the state is the one acted on.
IsRunningAny(state) == TRUE
IsRunning(state) == state = "running"

\* handler, line 233 negated: the signalled instance is the managed one.
ManagedOrInitial(managed, id) == managed = id \/ managed = Sentinel
Managed(managed, id) == managed = id

\* updateCloudflareRecord, lines 161-170: the answer is a success.
PatchOkStatusOnly(httpOk, success) == httpOk
PatchOk(httpOk, success) == httpOk /\ success

\* updateCloudflareRecord, lines 156-158: the content the PATCH sets.
PatchContentKept(ip, content) == content
PatchContentMerged(ip, content) == content \o "," \o ip
PatchContent(ip, content) == ip

\* handler and its callees issue GetParameter, DescribeInstances and the
\* PATCH only: nothing the Recovery Controller owns is touched.
DnsKeepsButResets ==
    /\ param' = Sentinel
    /\ UNCHANGED <<nLaunched, writeLog, superseded, polled, recStarted, rec>>
DnsKeeps == UNCHANGED recVars

\* handler, line 249: the operation given to withRetry is the whole of
\* updateCloudflareRecord, which starts with the token read (lines 143-146).
PatchAttemptStartAtFetch == "patch"
PatchAttemptStart == "token"

DnsFail(d, e) == [d EXCEPT !.pc = "done", !.result = "failed", !.err = e]
DnsSucceed(d) == [d EXCEPT !.pc = "done", !.result = "success"]

\* withRetry's catch block and loop step: attempt d.attempt of the operation
\* that starts at `again` threw e.  When the loop ends lastError is thrown and
\* the handler's catch re-throws it.
DnsAttemptFailed(d, e, maxAttempts, baseDelayMs, again) ==
    LET f == [d EXCEPT !.lastError = KeptError(d.lastError, e), !.thrown = e]
        w == IF RetryWaits(d.attempt, maxAttempts)
             THEN [f EXCEPT !.waits = Append(@, RetryDelay(baseDelayMs, d.attempt))]
             ELSE f
        n == [w EXCEPT !.attempt = @ + 1]
    IN  IF RetryLoops(n.attempt, maxAttempts)
        THEN [n EXCEPT !.pc = again]
        ELSE DnsFail(n, n.lastError)

\* A fresh withRetry call: attempt 1, no error kept.
DnsRetryBeginShared(d, first) ==
    [d EXCEPT !.pc = first, !.attempt = IF @ = 0 THEN 1 ELSE @]
DnsRetryBegin(d, first) ==
    [d EXCEPT !.pc = first, !.attempt = 1, !.lastError = NoError,
              !.thrown = NoError]

\* The signal source delivers a state-change signal: handler is entered and
\* runs to its first await, or returns on a state other than running.
\* Nothing of the invocation before it is kept by the handler; the record
\* notes the instance of the "running" signal handled just before, whether
\* the provider applied a PATCH of that invocation and answered with a
\* success, and the record content at this delivery.
DnsStart(j) ==
    /\ dns[j].pc \in {"idle", "done"}
    /\ dnsStarted < MaxDnsDeliveries
    /\ \E id \in Instances, st \in LifecycleStates :
          LET d == [DnsIdle EXCEPT
                      !.ev = id, !.state = st, !.tries = 1,
                      !.prevEv = IF dns[j].state = "running" THEN dns[j].ev
                                 ELSE "none",
                      !.prevPatched = dns[j].result = "success"
                                        /\ dns[j].nPatchOk > 0,
                      !.before = dnsContent]
          IN  dns' = [dns EXCEPT ![j] =
                 IF IsRunning(st) THEN [d EXCEPT !.pc = "read"]
                 ELSE DnsSucceed(d)]
    /\ dnsStarted' = dnsStarted + 1
    /\ UNCHANGED dnsContent
    /\ DnsKeeps

\* getParameter(<prefix>/instance-id) answers; the managed-instance check runs.
DnsGetParameter(j) ==
    /\ dns[j].pc = "read"
    /\ \E out \in {"ok", "novalue", "throws"} :
          LET d == [dns[j] EXCEPT !.nRead = @ + 1, !.readOut = out]
          IN  dns' = [dns EXCEPT ![j] =
                CASE out = "throws" -> DnsFail(d, Err("SsmError"))
                  [] out # "throws" /\ ~ReadYieldsValue(out) ->
                       DnsFail(d, Err("ParameterNotFound"))
                  [] OTHER ->
                       IF Managed(param, d.ev)
                       THEN DnsRetryBegin([d EXCEPT !.managed = param], "lookup")
                       ELSE DnsSucceed([d EXCEPT !.managed = param])]
    /\ UNCHANGED <<dnsStarted, dnsContent>>
    /\ DnsKeeps

\* getInstancePublicIp under withRetry(5, 2000): DescribeInstances answers.
DnsDescribe(j) ==
    /\ dns[j].pc = "lookup"
    /\ \E out \in {"ip", "noip", "notfound", "throws"} :
          LET d == [dns[j] EXCEPT !.nLookup = @ + 1,
                                  !.onlyNoIp = @ /\ out = "noip"]
          IN  dns' = [dns EXCEPT ![j] =
                IF out = "ip"
                THEN DnsRetryBegin([d EXCEPT !.ip = AddrOf(d.ev)], "token")
                ELSE DnsAttemptFailed(d,
                        CASE out = "noip" -> Err("NoPublicIp")
                          [] out = "notfound" -> Err("InstanceNotFound")
                          [] out = "throws" -> Err("Ec2Error"),
                        LookupMaxAttempts, LookupBaseDelayMs, "lookup")]
    /\ UNCHANGED <<dnsStarted, dnsContent>>
    /\ DnsKeeps

\* updateCloudflareRecord under withRetry(3, 1000), first await:
\* getParameter(<prefix>/cloudflare-token) answers.
DnsGetToken(j) ==
    /\ dns[j].pc = "token"
    /\ \E out \in {"ok", "novalue", "throws"} :
          LET d == [dns[j] EXCEPT !.nToken = @ + 1]
          IN  dns' = [dns EXCEPT ![j] =
                IF out = "ok" THEN [d EXCEPT !.pc = "patch"]
                ELSE DnsAttemptFailed(d,
                        IF out = "novalue" THEN Err("ParameterNotFound")
                        ELSE Err("SsmError"),
                        PatchMaxAttempts, PatchBaseDelayMs, PatchAttemptStart)]
    /\ UNCHANGED <<dnsStarted, dnsContent>>
    /\ DnsKeeps

\* updateCloudflareRecord, second await: the PATCH answers.  A fetch that
\* throws may or may not have reached the provider.
DnsFetchPatch(j) ==
    /\ dns[j].pc = "patch"
    /\ LET d == [dns[j] EXCEPT !.nPatch = @ + 1, !.sent = @ \cup {dns[j].ip}]
       IN  \/ \E applied \in BOOLEAN :
                /\ dnsContent' = IF applied THEN PatchContent(d.ip, dnsContent)
                                  ELSE dnsContent
                /\ dns' = [dns EXCEPT ![j] =
                      DnsAttemptFailed(d, Err("FetchError"),
                          PatchMaxAttempts, PatchBaseDelayMs, PatchAttemptStart)]
           \/ \E httpOk \in BOOLEAN, success \in BOOLEAN, p \in Payloads :
                IF PatchOk(httpOk, success)
                THEN /\ dnsContent' = IF httpOk /\ success
                                      THEN PatchContent(d.ip, dnsContent)
                                      ELSE dnsContent
                     /\ dns' = [dns EXCEPT ![j] =
                           DnsSucceed([d EXCEPT !.nPatchOk =
                                          IF httpOk /\ success THEN @ + 1 ELSE @])]
                ELSE /\ dnsContent' = dnsContent
                     /\ dns' = [dns EXCEPT ![j] =
                           DnsAttemptFailed(d,
                               IF ~httpOk THEN ErrWith("CloudflareHttp", p)
                               ELSE ErrWith("CloudflareApi", p),
                               PatchMaxAttempts, PatchBaseDelayMs, PatchAttemptStart)]
    /\ UNCHANGED dnsStarted
    /\ DnsKeeps

\* The awaited steps of a running invocation.
DnsSteps(j) ==
    \/ DnsGetParameter(j)
    \/ DnsDescribe(j)
    \/ DnsGetToken(j)
    \/ DnsFetchPatch(j)

DnsNext(S) == \E j \in S : DnsStart(j) \/ DnsSteps(j)

\* A delivery to an execution environment that has handled no signal yet.
DnsStartFresh(j) == dns[j].pc = "idle" /\ DnsStart(j)

\* A delivery to a new execution environment whose variables are env.
DnsColdStart(j) ==
    /\ dns[j].pc = "idle"
    /\ dnsStarted < MaxDnsDeliveries
    /\ \E env \in SUBSET DnsEnvKeys, id \in Instances, st \in LifecycleStates :
          LET d == [DnsIdle EXCEPT !.ev = id, !.state = st, !.tries = 1,
                                   !.env = env]
          IN  dns' = [dns EXCEPT ![j] =
                 IF LoadConfigOk(env, DnsRequired)
                 THEN LET c == [d EXCEPT !.logLevel = LogLevel(env)]
                      IN  IF IsRunning(st) THEN [c EXCEPT !.pc = "read"]
                          ELSE DnsSucceed(c)
                 ELSE DnsFail([d EXCEPT !.logLevel = "none"], Err("MissingEnv"))]
    /\ dnsStarted' = dnsStarted + 1
    /\ UNCHANGED dnsContent
    /\ DnsKeeps

\* The rule target delivers the signal of a failed invocation again.
DnsRedeliver(j) ==
    /\ dns[j].pc = "done"
    /\ Redeliverable(dns[j].result)
    /\ RetriesLeft(dns[j].tries)
    /\ dns' = [dns EXCEPT ![j] =
                [DnsIdle EXCEPT !.pc = "read", !.ev = dns[j].ev,
                                !.state = dns[j].state,
                                !.tries = dns[j].tries + 1]]
    /\ UNCHANGED <<dnsStarted, dnsContent>>
    /\ DnsKeeps

-----------------------------------------------------------------------------
(* Specifications *)

\* After provisioning the parameter holds the sentinel; after an earlier
\* recovery it holds the id of the instance that recovery launched.
Init ==
    /\ param \in {Sentinel, "i-old"}
    /\ nLaunched = 0
    /\ writeLog = <<>>
    /\ superseded = {}
    /\ polled = {}
    /\ recStarted = 0
    /\ rec = [i \in RecSlots |-> RecIdle]
    /\ dnsStarted = 0
    /\ dns = [j \in DnsSlots |-> DnsIdle]
    /\ dnsContent = "ip-unset"

\* One Recovery Controller invocation at a time (redeliveries in sequence).
NextRecovery == RecNext({1})
SpecRecovery == Init /\ [][NextRecovery]_vars

\* Two Recovery Controller invocations running concurrently, each slot
\* taking further deliveries when its invocation has ended.
NextRace == RecNext(RecSlots)
SpecRace == Init /\ [][NextRace]_vars

\* Two near-simultaneous deliveries: two invocations, one per slot.
NextDuplicate == \E i \in RecSlots : RecStartFresh(i) \/ RecSteps(i)
SpecDuplicate == Init /\ [][NextDuplicate]_vars

\* One DNS Reconciler invocation at a time.
NextDns == DnsNext({1})
SpecDns == Init /\ [][NextDns]_vars

\* One interruption signal and one state-change signal, each delivered once,
\* the two controllers side by side.
NextScenario ==
    \/ RecStartFresh(1) \/ RecSteps(1)
    \/ DnsStartFresh(1) \/ DnsSteps(1)
SpecScenario == Init /\ [][NextScenario]_vars

\* One signal, to either controller, delivered again by the rule target
\* after a failed invocation.
NextRedelivery ==
    \/ (dnsStarted = 0 /\ RecStartFresh(1)) \/ RecRedeliver(1) \/ RecSteps(1)
    \/ (recStarted = 0 /\ DnsStartFresh(1)) \/ DnsRedeliver(1) \/ DnsSteps(1)
SpecRedelivery == Init /\ [][NextRedelivery]_vars

\* One signal, to either controller, delivered to a new execution
\* environment with any set of variables.
NextColdStart ==
    \/ (dnsStarted = 0 /\ RecColdStart(1)) \/ RecSteps(1)
    \/ (recStarted = 0 /\ DnsColdStart(1)) \/ DnsSteps(1)
SpecColdStart == Init /\ [][NextColdStart]_vars

\* One signal, to either controller, every awaited call of the invocation
\* returning sooner or later.
NextTerminates ==
    \/ (dnsStarted = 0 /\ RecStartFresh(1)) \/ RecSteps(1)
    \/ (recStarted = 0 /\ DnsStartFresh(1)) \/ DnsSteps(1)
SpecTerminates ==
    /\ Init /\ [][NextTerminates]_vars
    /\ WF_vars(RecSteps(1)) /\ WF_vars(DnsSteps(1))

\* Answers an invocation has received from the services it called.
Answers(r) == r.nRead + r.nCreate + r.nWrite + r.nPoll

\* Two interruption signals for the same instance that differ in the
\* instance-action only, delivered together; the two invocations advance in
\* turn, the second following the first answer by answer, so that both read
\* the reference before either writes it.
NextHint ==
    \/ (rec[1].pc = "idle" /\ RecDeliver(1, Instances, Hints))
    \/ (/\ rec[1].pc # "idle"
        /\ rec[2].pc = "idle"
        /\ RecDeliver(2, {rec[1].ev}, Hints \ {rec[1].action}))
    \/ (/\ rec[2].pc # "idle"
        /\ Answers(rec[1]) = Answers(rec[2])
        /\ RecSteps(1))
    \/ (/\ Answers(rec[2]) < Answers(rec[1]) \/ rec[1].pc = "done"
        /\ RecSteps(2))
SpecHint == Init /\ [][NextHint]_vars

\* The two controllers side by side.
Next == RecNext({1}) \/ DnsNext({1})
Spec == Init /\ [][Next]_vars

-----------------------------------------------------------------------------
(* Properties of the Recovery Controller *)

Range(seq) == {seq[n] : n \in 1..Len(seq)}

IsPrefix(a, b) == Len(a) <= Len(b) /\ \A n \in 1..Len(a) : a[n] = b[n]

ReadFailed(r) ==
    r.pc = "done" /\ r.result = "failed"
                  /\ r.err \in {"SsmError", "ParameterNotFound"}

\* The invocation has put its new id and SSM applied the put.
Wrote(r) == r.nWrite = 1 /\ (r.pc = "poll" \/ (r.pc = "done" /\ r.err # "SsmPutError"))

\* C1 (idempotency): an interruption signal for O delivered after an earlier
\* signal for O has put a new id N issues no RunInstances, no PutParameter and
\* no poll, and returns successfully.  (An invocation whose read of the
\* reference fails is not held against the claim: it may end failed, having
\* created and written nothing.)
C1_Idempotency ==
    \A i \in RecSlots :
        rec[i].late =>
            /\ rec[i].pc \in {"read", "done"}
            /\ rec[i].nCreate = 0 /\ rec[i].nInst = 0
            /\ rec[i].nWrite = 0 /\ rec[i].nPoll = 0
            /\ rec[i].pc = "done" =>
                  \/ rec[i].result = "success"
                  \/ ReadFailed(rec[i]) /\ rec[i].cur = "none"

\* Two invocations for the same signalled id that read the same reference
\* value and both put: both passed the check before either wrote.
Raced(i, k) ==
    /\ i # k
    /\ rec[i].ev = rec[k].ev /\ rec[i].cur = rec[k].cur /\ rec[i].cur # "none"
    /\ Wrote(rec[i]) /\ Wrote(rec[k])

HandlerCallOrder == <<"get", "run", "put", "describe">>

C4_OneCreationOneWrite ==
    \A i \in RecSlots :
        /\ rec[i].nCreate <= 1 /\ rec[i].nInst <= 1
        /\ rec[i].nWrite <= 1 /\ rec[i].nPoll <= MaxPollAttempts
        /\ (rec[i].pc = "done" /\ rec[i].result = "success"
               /\ rec[i].cur # "none" /\ Applicable(rec[i].cur, rec[i].ev)) =>
              /\ rec[i].nCreate = 1 /\ rec[i].nInst = 1
              /\ rec[i].nWrite = 1
              /\ rec[i].nPoll >= 1

\* A recovery that succeeded at its 30th poll.
C4_Witness ==
    \E i \in RecSlots :
        /\ rec[i].pc = "done" /\ rec[i].result = "success"
        /\ rec[i].nCreate = 1 /\ rec[i].nWrite = 1
        /\ rec[i].nPoll = MaxPollAttempts

LaunchErrors == {"LaunchFailed", "NoInstanceId", "Ec2Error"}

\* C5 (bootstrap): an invocation that read the sentinel is never discarded,
\* whatever id was signalled: it issues RunInstances, then, unless that call
\* fails, puts the new id, and unless the put fails the reference has held
\* that id.
C5_Bootstrap ==
    \A i \in RecSlots :
        rec[i].cur = Sentinel =>
            /\ rec[i].pc \in {"launch", "put", "poll", "done"}
            /\ rec[i].pc # "launch" => rec[i].nCreate = 1
            /\ (rec[i].pc = "done" /\ rec[i].err \notin LaunchErrors) =>
                  rec[i].nWrite = 1
            /\ (rec[i].pc = "done" /\ rec[i].err \notin LaunchErrors \cup {"SsmPutError"}) =>
                  /\ rec[i].newId \in Launched
                  /\ rec[i].newId \in Range(writeLog)

\* From the sentinel, a signal for an instance the project never managed led
\* to a replacement whose id the reference now holds.
C5_Witness ==
    \E i \in RecSlots :
        /\ rec[i].cur = Sentinel /\ rec[i].ev = "i-foreign"
        /\ rec[i].pc = "done" /\ rec[i].result = "success"
        /\ param = rec[i].newId /\ rec[i].newId \in Launched

\* C6 (foreign-signal rejection): an invocation that read a reference A other
\* than the sentinel and other than the signalled id has returned successfully
\* having issued nothing but that read, and the reference still equals A.
C6_ForeignSignalRejected ==
    \A i \in RecSlots :
        (rec[i].cur \notin {"none", Sentinel} /\ rec[i].cur # rec[i].ev) =>
            /\ rec[i].pc = "done" /\ rec[i].result = "success"
            /\ rec[i].order = <<"get">> /\ rec[i].nRead = 1
            /\ rec[i].nCreate = 0 /\ rec[i].nInst = 0
            /\ rec[i].nWrite = 0 /\ rec[i].nPoll = 0
            /\ param = rec[i].cur

\* The reference holds i-old and a signal for i-foreign was discarded.
C6_Witness ==
    \E i \in RecSlots :
        /\ rec[i].cur = "i-old" /\ rec[i].ev = "i-foreign"
        /\ rec[i].pc = "done" /\ rec[i].result = "success"
        /\ param = "i-old" /\ nLaunched = 0

-----------------------------------------------------------------------------
(* Properties of the DNS Reconciler *)

NoDnsCalls(d) ==
    d.nRead = 0 /\ d.nLookup = 0 /\ d.nToken = 0 /\ d.nPatch = 0

NoUpdateCalls(d) == d.nLookup = 0 /\ d.nToken = 0 /\ d.nPatch = 0

\* C7 (readiness gating): an invocation for a state-change signal whose state
\* is not "running" has returned successfully and has issued no call at all:
\* no parameter read, no DescribeInstances, no token read, no PATCH.
C7_ReadinessGating ==
    \A j \in DnsSlots :
        dns[j].state \notin {"none", "running"} =>
            /\ dns[j].pc = "done" /\ dns[j].result = "success"
            /\ NoDnsCalls(dns[j])
            /\ dns[j].sent = {} /\ dns[j].waits = <<>>

\* A signal for the managed instance in state "pending" was discarded.
C7_Witness ==
    \E j \in DnsSlots :
        /\ dns[j].state = "pending" /\ dns[j].ev = param
        /\ dns[j].pc = "done" /\ dns[j].result = "success"
        /\ NoDnsCalls(dns[j])

\* C8 (authority check): an invocation issues a DescribeInstances, a token
\* read or a PATCH only after reading a reference equal to the signalled id;
\* one that read a different reference has returned successfully with none of
\* those calls; so one that read the sentinel was discarded, and while the
\* reference holds the sentinel the DNS record is never updated.
C8_AuthorityCheck ==
    /\ \A j \in DnsSlots :
          /\ ~NoUpdateCalls(dns[j]) =>
                dns[j].state = "running" /\ dns[j].managed = dns[j].ev
          /\ (dns[j].managed # "none" /\ dns[j].managed # dns[j].ev) =>
                /\ dns[j].pc = "done" /\ dns[j].result = "success"
                /\ dns[j].nRead = 1 /\ NoUpdateCalls(dns[j])
          /\ dns[j].managed = Sentinel => NoUpdateCalls(dns[j])
    /\ param = Sentinel => dnsContent = "ip-unset"

\* With the sentinel in the reference a "running" signal was read against it
\* and discarded.
C8_Witness ==
    \E j \in DnsSlots :
        /\ dns[j].state = "running" /\ dns[j].managed = Sentinel
        /\ dns[j].pc = "done" /\ dns[j].result = "success"
        /\ NoUpdateCalls(dns[j]) /\ dnsContent = "ip-unset"

\* The waits after failed lookups 1..n: 2 s, doubling.
LookupWaits(n) == SubSeq(<<2000, 4000, 8000, 16000>>, 1, n)

\* C9 (lookup exhaustion): while every lookup of an invocation has reported
\* no public address, no token read and no PATCH is issued; after fewer than
\* 5 such lookups the invocation is waiting for the next one, and after the
\* 5th it has failed with that lookup's error, having made exactly 5 lookups.
C9_LookupExhaustion ==
    \A j \in DnsSlots :
        (dns[j].onlyNoIp /\ dns[j].nLookup >= 1) =>
            /\ dns[j].nToken = 0 /\ dns[j].nPatch = 0 /\ dns[j].sent = {}
            /\ dns[j].nLookup <= LookupMaxAttempts
            /\ dns[j].nLookup < LookupMaxAttempts =>
                  /\ dns[j].pc = "lookup"
                  /\ dns[j].waits = LookupWaits(dns[j].nLookup)
            /\ dns[j].nLookup = LookupMaxAttempts =>
                  /\ dns[j].pc = "done" /\ dns[j].result = "failed"
                  /\ dns[j].err = Err("NoPublicIp")
                  /\ dns[j].waits = LookupWaits(LookupMaxAttempts - 1)
            /\ dns[j].pc = "done" => dns[j].nLookup = LookupMaxAttempts

\* Five lookups without an address, then the failure, and the DNS record was
\* never touched.
C9_Witness ==
    \E j \in DnsSlots :
        /\ dns[j].onlyNoIp /\ dns[j].nLookup = 5
        /\ dns[j].pc = "done" /\ dns[j].result = "failed"
        /\ dns[j].err.kind = "NoPublicIp"
        /\ dns[j].nPatch = 0 /\ dnsContent = "ip-unset"

ProviderErrors == {"CloudflareHttp", "CloudflareApi"}

PatchPhaseErrors ==
    ProviderErrors \cup {"FetchError", "SsmError", "ParameterNotFound"}

\* C10 (DNS update retry): an answer with a non-success status, or with a
\* success status and success=false, is a failed attempt: it is followed by
\* the next attempt while fewer than 3 were made, and the invocation returns
\* successfully only after a PATCH the provider accepted, which is its last.
\* At most 3 PATCH calls are issued.  An invocation that failed in the update
\* has used all 3 attempts and fails with the error of the last one, provider
\* payload included.
C10_PatchRetry ==
    \A j \in DnsSlots :
        /\ dns[j].nPatch <= PatchMaxAttempts
        /\ dns[j].nPatchOk <= 1
        /\ dns[j].nPatchOk = 1 =>
              /\ dns[j].pc = "done" /\ dns[j].result = "success"
              /\ dnsContent = dns[j].ip
        /\ (dns[j].result = "success" /\ dns[j].nPatch > 0) => dns[j].nPatchOk = 1
        /\ (dns[j].pc \in {"token", "patch"}) =>
              /\ dns[j].attempt \in 1..PatchMaxAttempts
              /\ dns[j].nPatch < dns[j].attempt
              /\ dns[j].nPatchOk = 0
        /\ (dns[j].pc \in {"token", "patch"} /\ dns[j].attempt > 1) =>
              dns[j].thrown.kind \in PatchPhaseErrors
        /\ (dns[j].result = "failed" /\ dns[j].nToken > 0) =>
              /\ dns[j].attempt = PatchMaxAttempts + 1
              /\ dns[j].err = dns[j].thrown
              /\ dns[j].err.kind \in PatchPhaseErrors
              /\ dns[j].err.kind \in ProviderErrors =>
                    dns[j].err.payload \in Payloads

\* Three PATCH calls, each refused by the provider, the last with a success
\* status and success=false; the invocation failed with that last payload.
C10_Witness ==
    \E j \in DnsSlots :
        /\ dns[j].nPatch = 3 /\ dns[j].nPatchOk = 0
        /\ dns[j].pc = "done" /\ dns[j].result = "failed"
        /\ dns[j].err = ErrWith("CloudflareApi", "body-b")
        /\ dns[j].waits[Len(dns[j].waits)] = 2000
        /\ dnsContent = "ip-unset"

-----------------------------------------------------------------------------
(* Side effects of one DNS Reconciler invocation *)

-----------------------------------------------------------------------------
(* Failures of the Recovery Controller *)

LaunchFailures == {"noinstances", "noid", "throws"}

\* C12 (creation failure is fatal): when RunInstances answers with no
\* instance, with an instance that has no id, or throws, the invocation has
\* ended failed with that error, it has put nothing and polled nothing, and
\* the reference still holds the value the invocation read.
C12_CreationFailureFatal ==
    \A i \in RecSlots :
        rec[i].runOut \in LaunchFailures =>
            /\ rec[i].pc = "done" /\ rec[i].result = "failed"
            /\ rec[i].err =
                  (CASE rec[i].runOut = "noinstances" -> "LaunchFailed"
                     [] rec[i].runOut = "noid" -> "NoInstanceId"
                     [] rec[i].runOut = "throws" -> "Ec2Error")
            /\ rec[i].nCreate = 1 /\ rec[i].nInst = 0
            /\ rec[i].nWrite = 0 /\ rec[i].nPoll = 0
            /\ rec[i].order = <<"get", "run">>
            /\ rec[i].newId = "none"
            /\ param = rec[i].cur

\* RunInstances answered with an instance without an id while the reference
\* held i-old: the invocation failed and the reference is still i-old.
C12_Witness ==
    \E i \in RecSlots :
        /\ rec[i].runOut = "noid" /\ rec[i].cur = "i-old"
        /\ rec[i].pc = "done" /\ rec[i].result = "failed"
        /\ param = "i-old" /\ writeLog = <<>>

-----------------------------------------------------------------------------
(* The two controllers together *)

\* The recovery of the scenario: the reference held i-old, the signal named
\* i-old, and the invocation ran to success.
Recovered(r) ==
    /\ r.cur = "i-old" /\ r.ev = "i-old"
    /\ r.pc = "done" /\ r.result = "success"

\* The reconciliation of the scenario: a "running" signal for id, read
\* against a reference that names id, and the invocation ran to success.
Reconciled(d, id) ==
    /\ d.ev = id /\ d.state = "running" /\ d.managed = id
    /\ d.pc = "done" /\ d.result = "success"

\* C14 (end-to-end scenario): from reference = i-old, an interruption signal
\* for i-old is not discarded, and when its invocation succeeds it has
\* created one instance N, written N to the reference and seen N running;
\* a "running" signal for N that finds the reference equal to N is not
\* discarded, and when its invocation succeeds it has resolved the address
\* of N and sent it, and nothing else, as the record's content.  At the end
\* of both the reference is N and the DNS content is the address of N.
C14_EndToEnd ==
    \A i \in {1}, j \in DnsSlots :
        LET r == rec[i]
            d == dns[j]
        IN  /\ (r.cur = "i-old" /\ r.ev = "i-old") =>
                  r.pc \in {"launch", "put", "poll", "done"}
            /\ Recovered(r) =>
                  /\ r.newId \in Launched /\ r.nCreate = 1 /\ r.nWrite = 1
                  /\ r.sawRunning
                  /\ writeLog = <<r.newId>> /\ param = r.newId
            /\ (d.state = "running" /\ d.managed = d.ev) =>
                  d.pc \in {"lookup", "token", "patch", "done"}
            /\ Reconciled(d, d.ev) =>
                  /\ d.ip = AddrOf(d.ev) /\ d.sent = {AddrOf(d.ev)}
                  /\ d.nPatchOk = 1
                  /\ dnsContent = AddrOf(d.ev)
            /\ (Recovered(r) /\ Reconciled(d, r.newId)) =>
                  /\ param = r.newId
                  /\ dnsContent = AddrOf(r.newId)
                  /\ dnsContent # AddrOf("i-old")

\* The scenario ran to its end: i-new1 replaced i-old, and the record holds
\* the address of i-new1.
C14_Witness ==
    /\ Recovered(rec[1]) /\ rec[1].newId = "i-new1"
    /\ Reconciled(dns[1], "i-new1")
    /\ param = "i-new1"
    /\ dnsContent = "ip-of-i-new1"

\* An ignorable interruption signal: the reference read names another
\* instance, and nothing but the read was issued.
RecDiscarded(r) ==
    /\ r.cur \notin {"none", Sentinel} /\ r.cur # r.ev
    /\ r.order = <<"get">> /\ r.err = "none"

\* All steps of a recovery: read, create, write, and the new instance seen
\* running.
RecCompleted(r) ==
    /\ r.order = HandlerCallOrder
    /\ r.nCreate = 1 /\ r.nInst = 1 /\ r.nWrite = 1
    /\ r.sawRunning /\ r.err = "none"

RecFatal ==
    {"SsmError", "ParameterNotFound", "LaunchFailed", "NoInstanceId",
     "Ec2Error", "SsmPutError", "DescribeError", "TerminalState", "PollTimeout"}

\* An ignorable state-change signal: a state other than "running", or a
\* reference that names another instance.
DnsDiscarded(d) ==
    /\ \/ d.state # "running" /\ NoDnsCalls(d)
       \/ d.managed # "none" /\ d.managed # d.ev /\ d.nRead = 1 /\ NoUpdateCalls(d)
    /\ d.err = NoError

\* All steps of a reconciliation: read, lookup, and a PATCH the provider
\* accepted.
DnsCompleted(d) ==
    /\ d.managed = d.ev /\ d.ip # "none"
    /\ d.nPatchOk = 1 /\ d.err = NoError

DnsFatal ==
    {"SsmError", "ParameterNotFound", "NoPublicIp", "InstanceNotFound",
     "Ec2Error", "FetchError", "CloudflareHttp", "CloudflareApi"}

\* C15 (outcome classification): an invocation of either controller that has
\* ended has ended in success or in failure; in success exactly when it
\* discarded an ignorable signal or completed all its steps; every fatal
\* condition (a failed read of the store, a creation without an id, a
\* terminal state or 30 polls without "running", 5 failed lookups, 3 failed
\* update attempts) has ended it in failure with the error raised.
C15_OutcomeClassification ==
    /\ \A i \in RecSlots :
          LET r == rec[i] IN
          /\ r.pc = "done" =>
                /\ r.result \in {"success", "failed"}
                /\ r.result = "success" <=> (RecDiscarded(r) \/ RecCompleted(r))
                /\ r.result = "failed" <=> r.err \in RecFatal
          /\ r.pc # "done" => (r.result = "none" /\ r.err = "none")
          /\ (r.runOut \in LaunchFailures \/ r.sawTerminal
                \/ (r.nPoll = MaxPollAttempts /\ ~r.sawRunning)) =>
                (r.pc = "done" /\ r.result = "failed")
    /\ \A j \in DnsSlots :
          LET d == dns[j] IN
          /\ d.pc = "done" =>
                /\ d.result \in {"success", "failed"}
                /\ d.result = "success" <=> (DnsDiscarded(d) \/ DnsCompleted(d))
                /\ d.result = "failed" <=> d.err.kind \in DnsFatal
          /\ d.pc # "done" => (d.result = "none" /\ d.err = NoError)
          /\ ((d.nLookup = LookupMaxAttempts /\ d.ip = "none")
                \/ (d.nToken = PatchMaxAttempts /\ d.nPatchOk = 0
                      /\ d.pc \notin {"token", "patch"})) =>
                (d.pc = "done" /\ d.result = "failed")

\* Both kinds of ending at once: the Recovery Controller failed on a terminal
\* state of the new instance while the DNS Reconciler discarded a signal for
\* an instance the reference does not name.
C15_Witness ==
    /\ rec[1].pc = "done" /\ rec[1].result = "failed"
    /\ rec[1].err = "TerminalState"
    /\ dns[1].pc = "done" /\ dns[1].result = "success"
    /\ DnsDiscarded(dns[1]) /\ dns[1].state = "running"

\* C16 (no cascading action): no step of the DNS Reconciler, whether the
\* invocation goes on, returns or fails, creates an instance or writes the
\* reference; the reference changes only in a step of the Recovery Controller
\* that puts its new id.
C16_NoCascade ==
    [][/\ (dns' # dns \/ dnsStarted' # dnsStarted \/ dnsContent' # dnsContent) =>
             /\ param' = param
             /\ nLaunched' = nLaunched
             /\ writeLog' = writeLog
       /\ param' # param =>
             \E i \in RecSlots :
                /\ rec[i].pc = "put"
                /\ rec'[i].nWrite = rec[i].nWrite + 1
                /\ param' = rec[i].newId
                /\ dns' = dns
       /\ nLaunched' # nLaunched =>
             \E i \in RecSlots : rec[i].pc = "launch" /\ dns' = dns]_vars

\* A reconciliation that failed after three refused updates, with the
\* reference never written and no instance created.
C16_Witness ==
    \E j \in DnsSlots :
        /\ dns[j].pc = "done" /\ dns[j].result = "failed"
        /\ dns[j].nPatch = 3
        /\ writeLog = <<>> /\ nLaunched = 0
        /\ param = dns[j].managed

-----------------------------------------------------------------------------
(* Properties of the retry utility, in its two uses *)

Min(a, b) == IF a < b THEN a ELSE b

RECURSIVE SumSeq(_)
SumSeq(seq) == IF seq = <<>> THEN 0 ELSE seq[1] + SumSeq(Tail(seq))

\* Lookups of the invocation that failed.
LookupFailures(d) == IF d.ip = "none" THEN d.nLookup ELSE d.nLookup - 1

\* Update attempts of the invocation that failed: those begun, less the one
\* in flight and the one accepted.
PatchFailures(d) ==
    d.nToken - (IF d.pc = "patch" THEN 1 ELSE 0) - d.nPatchOk

\* The waits after failed update attempts 1..n: 1 s, doubling.
PatchWaits(n) == SubSeq(<<1000, 2000>>, 1, n)

RetryResult(d) ==
    /\ d.nLookup <= LookupMaxAttempts /\ d.nToken <= PatchMaxAttempts
    /\ d.pc = "lookup" =>
          /\ d.ip = "none"
          /\ d.attempt \in 1..LookupMaxAttempts
          /\ d.nLookup = d.attempt - 1
    /\ d.ip # "none" =>
          /\ d.pc \in {"token", "patch", "done"}
          /\ d.ip = AddrOf(d.ev)
          /\ d.nLookup \in 1..LookupMaxAttempts
    /\ (d.pc = "done" /\ d.result = "failed" /\ d.nLookup > 0 /\ d.ip = "none") =>
          /\ d.nLookup = LookupMaxAttempts
          /\ d.err = d.thrown
    /\ d.pc = "token" =>
          /\ d.attempt \in 1..PatchMaxAttempts
          /\ d.nToken = d.attempt - 1 /\ d.nPatchOk = 0
    /\ d.nPatchOk = 1 =>
          /\ d.pc = "done" /\ d.result = "success"
          /\ d.nToken \in 1..PatchMaxAttempts
    /\ (d.pc = "done" /\ d.result = "failed" /\ d.nToken > 0) =>
          /\ d.nToken = PatchMaxAttempts /\ d.nPatchOk = 0
          /\ d.err = d.thrown

\* C18 (retry utility result): the operation is invoked once per attempt
\* until its first success or until maxAttempts attempts have failed; after
\* the first success it is not invoked again and the value of that success is
\* what the utility returns; when all attempts failed the error raised is
\* the one the last attempt threw.  Checked for the two uses the program
\* makes of the utility, 5 attempts for the lookup and 3 for the update.
C18_RetryResult ==
    /\ [](\A j \in DnsSlots : RetryResult(dns[j]))
    /\ [][\A j \in DnsSlots :
             (dns[j].ip # "none" /\ dns[j].pc # "done") =>
                 /\ dns'[j].nLookup = dns[j].nLookup
                 /\ dns'[j].ip = dns[j].ip]_vars

\* The second lookup found the address; the three update attempts failed
\* with different errors and the one raised is the last.
C18_Witness ==
    \E j \in DnsSlots :
        /\ dns[j].nLookup = 2 /\ dns[j].ip = AddrOf(dns[j].ev)
        /\ dns[j].nToken = 3 /\ dns[j].nPatch = 2
        /\ dns[j].pc = "done" /\ dns[j].result = "failed"
        /\ dns[j].err = Err("SsmError")

-----------------------------------------------------------------------------
(* Waiting budgets against the Lambda timeouts *)

\* C19 (timeouts exceed the waiting budgets): whatever an invocation has
\* waited in its own sleeps, 10 s after each poll of the Recovery Controller
\* and the backoff waits of the DNS Reconciler's lookups and update attempts,
\* is less than the Lambda timeout of its controller, so that the invocation
\* reaches its own exhaustion error before the platform ends it.
C19_TimeoutExceedsBudgets ==
    /\ \A i \in RecSlots : rec[i].waited < RecoveryTimeoutMs
    /\ \A j \in DnsSlots : SumSeq(dns[j].waits) < DdnsTimeoutMs

-----------------------------------------------------------------------------
(* Redelivery by the rule targets *)

-----------------------------------------------------------------------------
(* The lookup and the update of one reconciliation *)

\* C21 (lookup retry): a lookup that finds no address, or no instance, is
\* followed by the next lookup while fewer than 5 were made; the lookup that
\* first returns an address is the last one of the invocation, it is at most
\* the 5th, the invocation goes on to the update, and the address every PATCH
\* carries, and the record's content once changed, is that address.
C21_LookupRetry ==
    /\ [](\A j \in DnsSlots :
            LET d == dns[j] IN
            /\ (d.ip = "none" /\ d.nLookup \in 1..(LookupMaxAttempts - 1)) =>
                  d.pc = "lookup"
            /\ d.ip # "none" =>
                  /\ d.nLookup \in 1..LookupMaxAttempts
                  /\ d.pc \in {"token", "patch", "done"}
                  /\ d.pc = "done" => d.nToken > 0
                  /\ d.sent \subseteq {d.ip}
                  /\ d.nPatch > 0 => d.sent = {d.ip}
            /\ d.ip = "none" => (d.nToken = 0 /\ d.nPatch = 0 /\ d.sent = {}))
    /\ [][\A j \in DnsSlots :
            /\ (dns[j].ip = "none" /\ dns'[j].ip # "none") =>
                  /\ dns'[j].nLookup = dns[j].nLookup + 1
                  /\ dns'[j].pc = "token"
                  /\ dns'[j].ip = AddrOf(dns[j].ev)
            /\ (dns[j].ip # "none" /\ dns[j].pc # "done") =>
                  /\ dns'[j].nLookup = dns[j].nLookup
                  /\ dns'[j].ip = dns[j].ip
            /\ dnsContent' # dnsContent =>
                  /\ dns[j].pc = "patch" /\ dns[j].ip # "none"
                  /\ dnsContent' = dns[j].ip]_vars

\* Four lookups without an address, the fifth returned one, and the record
\* was set to it.
C21_Witness ==
    \E j \in DnsSlots :
        /\ dns[j].nLookup = 5 /\ dns[j].ip = AddrOf(dns[j].ev)
        /\ LookupFailures(dns[j]) = 4
        /\ dns[j].pc = "done" /\ dns[j].result = "success"
        /\ dns[j].sent = {dns[j].ip} /\ dnsContent = dns[j].ip

-----------------------------------------------------------------------------
(* Cold start *)

NoRecCalls(r) ==
    r.nRead = 0 /\ r.nCreate = 0 /\ r.nWrite = 0 /\ r.nPoll = 0 /\ r.order = <<>>

\* The configuration items the claim lists, per controller.
RecListed == {"PARAMETER_STORE_PREFIX", "LAUNCH_TEMPLATE_ID", "LOG_LEVEL"}
DnsListed == DnsEnvKeys

\* The cold-start validation as first stated: a missing item of the list,
\* log verbosity included, fails the initialisation and the invocation
\* performs no call.
C22_AllListedRequired ==
    /\ \A i \in RecSlots :
          (rec[i].tries > 0 /\ ~(RecListed \subseteq rec[i].env)) =>
              /\ rec[i].pc = "done" /\ rec[i].result = "failed"
              /\ NoRecCalls(rec[i])
    /\ \A j \in DnsSlots :
          (dns[j].tries > 0 /\ ~(DnsListed \subseteq dns[j].env)) =>
              /\ dns[j].pc = "done" /\ dns[j].result = "failed"
              /\ NoDnsCalls(dns[j])

\* C22 (cold-start validation): when the key prefix or the template id is
\* missing for the Recovery Controller, or the key prefix, the zone id or
\* the record id for the DNS Reconciler, the initialisation has failed and
\* the invocation has issued no state-store, compute or DNS call and left
\* the reference and the record as they were.  A missing log verbosity is not
\* fatal: the level is "info" and the handler runs.
C22_ColdStartValidation ==
    /\ \A i \in RecSlots :
          LET r == rec[i] IN
          /\ (r.tries > 0 /\ ~((RecListed \ {"LOG_LEVEL"}) \subseteq r.env)) =>
                /\ r.pc = "done" /\ r.result = "failed" /\ r.err = "MissingEnv"
                /\ NoRecCalls(r)
                /\ writeLog = <<>> /\ nLaunched = 0
          /\ (r.tries > 0 /\ RecRequired \subseteq r.env /\ "LOG_LEVEL" \notin r.env) =>
                /\ r.logLevel = "info"
                /\ r.err # "MissingEnv"
                /\ r.pc = "done" => r.nRead = 1
    /\ \A j \in DnsSlots :
          LET d == dns[j] IN
          /\ (d.tries > 0 /\ ~((DnsListed \ {"LOG_LEVEL"}) \subseteq d.env)) =>
                /\ d.pc = "done" /\ d.result = "failed"
                /\ d.err = Err("MissingEnv")
                /\ NoDnsCalls(d)
                /\ dnsContent = "ip-unset"
          /\ (d.tries > 0 /\ DnsRequired \subseteq d.env /\ "LOG_LEVEL" \notin d.env) =>
                /\ d.logLevel = "info"
                /\ d.err # Err("MissingEnv")

\* The template id alone is missing: the Recovery Controller never entered
\* its handler.
C22_Witness ==
    \E i \in RecSlots :
        /\ rec[i].env = RecEnvKeys \ {"LAUNCH_TEMPLATE_ID"}
        /\ rec[i].pc = "done" /\ rec[i].result = "failed"
        /\ rec[i].err = "MissingEnv"
        /\ NoRecCalls(rec[i])

-----------------------------------------------------------------------------
(* Redelivery of an interruption signal *)

C24_AtMostOneCreated ==
    recStarted <= 1 => nLaunched <= 1

-----------------------------------------------------------------------------
(* The DNS record against the reference *)

\* C25 (DNS never points at a non-authoritative resource): whenever the DNS
\* Reconciler issues a PATCH, the address it carries is the address of the
\* instance the reference names at that moment, and whenever the record's
\* content is changed it is changed to that address.
C25_PatchCarriesAuthoritative ==
    [][\A j \in DnsSlots :
          /\ (dns[j].pc = "patch" /\ dns'[j].nPatch = dns[j].nPatch + 1) =>
                dns[j].ip = AddrOf(param)
          /\ dnsContent' # dnsContent => dnsContent' = AddrOf(param)]_vars

\* C26 (DNS convergence after recovery): once the Recovery Controller has
\* written N to the reference and the DNS Reconciler invocation for the
\* "running" signal of N has ended without a failure, whenever that signal
\* was delivered, the record's content is the address of N.
C26_DnsConverges ==
    \A j \in DnsSlots :
        (/\ dns[j].state = "running"
         /\ dns[j].ev \in Range(writeLog) /\ param = dns[j].ev
         /\ dns[j].pc = "done" /\ dns[j].result = "success") =>
            dnsContent = AddrOf(dns[j].ev)

\* C27 (reference invariant): the reference always holds the sentinel or the
\* id of an instance a recovery created (i-old being the one an earlier
\* recovery created); every value written to it is the id RunInstances
\* returned to the writing invocation; it is never emptied, and once it holds
\* an id it never holds the sentinel again.
C27_ReferenceInvariant ==
    /\ [](/\ param \in {Sentinel, "i-old"} \cup Launched
          /\ Range(writeLog) \subseteq Launched
          /\ param \notin {"", "none", "i-foreign"}
          /\ writeLog # <<>> => param \in Launched)
    /\ [][/\ param # Sentinel => param' # Sentinel
          /\ param' # param =>
                \E i \in RecSlots :
                    /\ rec[i].pc = "put" /\ rec[i].nCreate = 1
                    /\ rec[i].newId \in Launched
                    /\ param' = rec[i].newId]_vars

\* Two recoveries in a row from the sentinel: the reference went from the
\* sentinel to i-new1 and from i-new1 to i-new2.
C27_Witness ==
    /\ writeLog = <<"i-new1", "i-new2">>
    /\ param = "i-new2"
    /\ \E i \in RecSlots : rec[i].cur = "i-new1" /\ rec[i].ev = "i-new1"

-----------------------------------------------------------------------------
(* Failure of the reference read *)

ReadFailures == {"throws", "novalue"}

\* C28 (read failure in the guard): when the read of the reference throws
\* or yields no value, the Recovery Controller invocation has failed having
\* issued no RunInstances, no put and no poll, and the DNS Reconciler
\* invocation has failed having issued no lookup, no token read and no PATCH;
\* no invocation reads the reference more than once.
C28_ReadFailureFatal ==
    /\ \A i \in RecSlots :
          LET r == rec[i] IN
          /\ r.nRead <= 1
          /\ r.readOut \in ReadFailures =>
                /\ r.pc = "done" /\ r.result = "failed"
                /\ r.err = (IF r.readOut = "throws" THEN "SsmError"
                            ELSE "ParameterNotFound")
                /\ r.nRead = 1 /\ r.order = <<"get">> /\ r.cur = "none"
                /\ r.nCreate = 0 /\ r.nInst = 0 /\ r.nWrite = 0 /\ r.nPoll = 0
    /\ \A j \in DnsSlots :
          LET d == dns[j] IN
          /\ d.nRead <= 1
          /\ d.readOut \in ReadFailures =>
                /\ d.pc = "done" /\ d.result = "failed"
                /\ d.err = (IF d.readOut = "throws" THEN Err("SsmError")
                            ELSE Err("ParameterNotFound"))
                /\ d.nRead = 1 /\ d.managed = "none"
                /\ NoUpdateCalls(d) /\ d.sent = {} /\ d.waits = <<>>

\* The read of the reference yielded no value in the delivery and in both
\* redeliveries of an interruption signal: three failed invocations, one
\* read each, and nothing created or written.
C28_Witness ==
    \E i \in RecSlots :
        /\ rec[i].readOut = "novalue" /\ rec[i].tries = 3
        /\ rec[i].pc = "done" /\ rec[i].result = "failed"
        /\ rec[i].nRead = 1
        /\ nLaunched = 0 /\ writeLog = <<>>

-----------------------------------------------------------------------------
(* Termination *)

\* C29 (every invocation terminates): provided every awaited call returns,
\* an invocation that has started ends, in success or in failure; a Recovery
\* Controller invocation has then made at most 1 read of the reference, 1
\* RunInstances, 1 put and 30 polls, and a DNS Reconciler invocation at most
\* 1 read of the reference, 5 lookups and 3 update attempts.
C29_Terminates ==
    /\ [](/\ \A i \in RecSlots :
                /\ rec[i].nRead <= 1 /\ rec[i].nCreate <= 1
                /\ rec[i].nWrite <= 1 /\ rec[i].nPoll <= 30
                /\ rec[i].pc = "done" => rec[i].result \in {"success", "failed"}
          /\ \A j \in DnsSlots :
                /\ dns[j].nRead <= 1 /\ dns[j].nLookup <= 5
                /\ dns[j].nToken <= 3 /\ dns[j].nPatch <= 3
                /\ dns[j].pc = "done" => dns[j].result \in {"success", "failed"})
    /\ \A i \in {1} : (rec[i].pc \notin {"idle", "done"}) ~> (rec[i].pc = "done")
    /\ \A j \in DnsSlots : (dns[j].pc \notin {"idle", "done"}) ~> (dns[j].pc = "done")

\* A reconciliation that used its whole budget and ended: 1 read, 5 lookups,
\* 3 update attempts, the last one accepted.
C29_Witness ==
    \E j \in DnsSlots :
        /\ dns[j].nRead = 1 /\ dns[j].nLookup = 5
        /\ dns[j].nToken = 3 /\ dns[j].nPatch = 3
        /\ dns[j].pc = "done" /\ dns[j].result = "success"

-----------------------------------------------------------------------------
(* The two retry budgets of one reconciliation *)

\* C30 (independent retry budgets): however many lookups were used, 1 to 5,
\* the update starts at its attempt 1 with its first wait at 1 s, goes on
\* while fewer than 3 of its attempts have failed and none was accepted, and
\* fails only after 3 failed attempts; the lookup is not repeated once it
\* has returned an address; every PATCH carries that address.
C30_IndependentBudgets ==
    /\ [](\A j \in DnsSlots :
            LET d == dns[j] IN
            d.ip # "none" =>
                /\ d.nLookup \in 1..LookupMaxAttempts
                /\ d.pc \in {"token", "patch", "done"}
                /\ d.ip = AddrOf(d.ev) /\ d.sent \subseteq {d.ip}
                /\ d.pc \in {"token", "patch"} =>
                      d.attempt = PatchFailures(d) + 1
                /\ (PatchFailures(d) < 3 /\ d.nPatchOk = 0) =>
                      d.pc \in {"token", "patch"}
                /\ (d.pc = "done" /\ d.result = "failed") =>
                      PatchFailures(d) = 3
                /\ PatchFailures(d) >= 1 =>
                      d.waits[LookupFailures(d) + 1] = 1000)
    /\ [][\A j \in DnsSlots :
            (dns[j].ip # "none" /\ dns[j].pc # "done") =>
                /\ dns'[j].nLookup = dns[j].nLookup
                /\ dns'[j].ip = dns[j].ip
                /\ dns'[j].sent \subseteq {dns[j].ip}]_vars

\* All 5 lookups were used and the update still had its 3 attempts, each
\* carrying the address the fifth lookup returned.
C30_Witness ==
    \E j \in DnsSlots :
        /\ dns[j].nLookup = 5 /\ dns[j].ip = AddrOf(dns[j].ev)
        /\ dns[j].nPatch = 3 /\ dns[j].sent = {dns[j].ip}
        /\ dns[j].pc = "done" /\ dns[j].result = "failed"
        /\ PatchFailures(dns[j]) = 3

-----------------------------------------------------------------------------
(* Duplicate readiness signals *)

\* An invocation handling a "running" signal for the managed instance whose
\* signal was also the one handled just before, that earlier invocation
\* having had its PATCH applied and answered with a success.
SecondProcessing(d) ==
    /\ d.state = "running"
    /\ d.prevEv = d.ev
    /\ d.prevPatched
    /\ param = d.ev

\* C31: the DNS Reconciler overwrites the record content with the address it
\* resolved from the instance, whatever the content was: an accepted run that
\* ended after a PATCH answered with a success leaves the content equal to
\* that address.  Processing the same "running" signal for the managed
\* instance a second time, the reference and the address being the same,
\* leaves the content what the first processing left, at every step of the
\* second processing and whatever its outcome (success, a failed read, an
\* exhausted lookup or update, a PATCH applied without an answer).
C31_DuplicateIdempotent ==
    \A j \in DnsSlots :
       LET d == dns[j]
       IN  /\ (d.pc = "done" /\ d.result = "success" /\ d.nPatchOk > 0) =>
                /\ dnsContent = d.ip
                /\ d.ip = AddrOf(d.ev)
           /\ SecondProcessing(d) =>
                /\ d.before = AddrOf(d.ev)
                /\ dnsContent = d.before
                /\ d.sent \subseteq {d.before}

\* The same signal has been processed twice, both times to a successful
\* PATCH, and the content is the address the first processing left.
C31_Witness ==
    \E j \in DnsSlots :
       /\ SecondProcessing(dns[j])
       /\ dnsStarted = 2
       /\ dns[j].pc = "done"
       /\ dns[j].result = "success"
       /\ dns[j].nPatchOk = 1
       /\ dns[j].nLookup >= 2
       /\ dnsContent = dns[j].before
       /\ dnsContent = AddrOf(dns[j].ev)

-----------------------------------------------------------------------------
(* The instance-action of the interruption signal *)

\* Two invocations were given the same signalled id, read the same reference
\* value and received the same answers so far: as many, and the same from
\* the reference read, from RunInstances, from the reference write and from
\* DescribeInstances as far as the wait tells answers apart (a running
\* state, a terminated or shutting-down state, an error).
SameInputs(a, b) ==
    /\ a.ev = b.ev
    /\ Answers(a) = Answers(b)
    /\ a.readOut = b.readOut
    /\ a.cur = b.cur
    /\ a.runOut = b.runOut
    /\ a.putOut = b.putOut
    /\ a.sawRunning = b.sawRunning
    /\ a.sawTerminal = b.sawTerminal
    /\ a.pollThrew = b.pollThrew

\* C32: what the Recovery Controller decides and does depends on the
\* signalled id, the reference value and the answers of the services only.
\* Two invocations whose signals differ in the instance-action alone, which
\* read the same reference value and received the same answers, are at the
\* same point of the handler, have made the same calls the same number of
\* times, have the same outcome, and have both written the reference or
\* neither has; every value written is the id RunInstances returned to the
\* invocation that wrote it.
C32_HintIrrelevant ==
    \A i \in RecSlots, k \in RecSlots :
       LET a == rec[i]
           b == rec[k]
       IN  /\ (a.pc # "idle" /\ b.pc # "idle" /\ a.action # b.action
                 /\ SameInputs(a, b)) =>
                /\ a.pc = b.pc
                /\ a.order = b.order
                /\ a.nRead = b.nRead
                /\ a.nCreate = b.nCreate
                /\ a.nInst = b.nInst
                /\ a.nWrite = b.nWrite
                /\ a.nPoll = b.nPoll
                /\ a.result = b.result
                /\ a.err = b.err
                /\ Wrote(a) <=> Wrote(b)
           /\ Range(writeLog) \subseteq {rec[n].newId : n \in RecSlots}
           /\ (a.pc = "done" /\ b.pc = "done" /\ Wrote(a) /\ Wrote(b) /\ i < k) =>
                /\ writeLog = <<a.newId, b.newId>>
                /\ param = b.newId

\* Two signals for the managed instance, one a terminate and one a stop or
\* hibernate, were both carried through to a running replacement with the
\* same calls.
C32_Witness ==
    /\ rec[1].pc = "done"
    /\ rec[2].pc = "done"
    /\ rec[1].ev = "i-old"
    /\ rec[2].ev = "i-old"
    /\ rec[1].cur = "i-old"
    /\ rec[2].cur = "i-old"
    /\ rec[1].action = "terminate"
    /\ rec[2].action \in {"stop", "hibernate"}
    /\ SameInputs(rec[1], rec[2])
    /\ rec[1].order = <<"get", "run", "put", "describe">>
    /\ rec[2].order = rec[1].order
    /\ rec[1].nPoll = 2
    /\ rec[1].result = "success"
    /\ rec[2].result = "success"
    /\ writeLog = <<NewId(1), NewId(2)>>

====
